---------------------------- MODULE Spec2Model ----------------------------
(***************************************************************************)
(* Model of zerver/views/user_topics.py: the per-user, per-topic          *)
(* visibility-policy commands (update_muted_topic with mute_topic and     *)
(* unmute_topic, update_user_topic) over the UserTopic override store.    *)
(*                                                                         *)
(* The store is a set of UserTopic rows.  The stream resolvers, the       *)
(* exactly-one argument check, the policy validator and the store writer  *)
(* are imported by the view from zerver.lib / zerver.actions; they are    *)
(* modelled from their documented contract.                               *)
(***************************************************************************)
EXTENDS Integers, Sequences, FiniteSets, TLC

VARIABLES store, now, last, conc

vars == <<store, now, last, conc>>

---------------------------------------------------------------------------
(* Bounds *)

\* The clock advances by one with every request; requests stop at MaxClock.
MaxClock == 3

\* The number of requests in flight at once.
NumProcs == 2

---------------------------------------------------------------------------
(* The world outside the store: users, streams, access *)

\* Python's None / a present value, for the optional request parameters.
None == <<>>
Some(x) == <<x>>
Val(o) == o[1]

Users == {"u1", "u2"}

\* Existing streams: id and name.
Streams == {[id |-> 1, name |-> "s1"], [id |-> 2, name |-> "s2"]}

StreamIdInputs == {1, 2, 3}
StreamNameInputs == {"s1", "s3"}

\* Who passes the ordinary access check of a stream (stream 2 is private
\* to u1).
Access == {<<"u1", 1>>, <<"u1", 2>>, <<"u2", 1>>}

\* Topic names are sequences of characters.
TopicInputs == {<<"a">>, <<"A">>, <<"b", " ">>}

\* UserTopic.VisibilityPolicy
INHERIT == 0
MUTED == 1
UNMUTED == 2
FOLLOWED == 3
VisibilityPolicyValues == {INHERIT, MUTED, UNMUTED, FOLLOWED}

\* The integers a request may carry as visibility_policy.
PolicyInputs == {0, 1, 2, 3, 4}

---------------------------------------------------------------------------
(* Topic identity: case and surrounding whitespace are ignored *)

LowerChar(c) ==
    IF c = "A" THEN "a" ELSE IF c = "B" THEN "b" ELSE c

Lower(t) == [i \in 1..Len(t) |-> LowerChar(t[i])]

RECURSIVE StripLeft(_)
StripLeft(t) ==
    IF t # <<>> /\ Head(t) = " " THEN StripLeft(Tail(t)) ELSE t

RECURSIVE StripRight(_)
StripRight(t) ==
    IF t # <<>> /\ t[Len(t)] = " "
    THEN StripRight(SubSeq(t, 1, Len(t) - 1))
    ELSE t

NormalizeTopic(t) == Lower(StripRight(StripLeft(t)))

---------------------------------------------------------------------------
(* Outcomes of a command *)

OK == "ok"
AmbiguousOrMissingStreamReference == "AmbiguousOrMissingStreamReference"
StreamNotFound == "StreamNotFound"
AccessDenied == "AccessDenied"
NoOverrideToRemove == "NoOverrideToRemove"
InvalidPolicyValue == "InvalidPolicyValue"
AssertionError == "AssertionError"

Taxonomy == {AmbiguousOrMissingStreamReference, StreamNotFound, AccessDenied,
             NoOverrideToRemove, InvalidPolicyValue}

\* A command's outcome: the store it leaves, its result, the error message
\* and the steps it performed, in order.
Outcome(s, result, msg, steps) ==
    [store |-> s, result |-> result, msg |-> msg, steps |-> steps]

---------------------------------------------------------------------------
(* Collaborators of the view *)

\* check_for_exactly_one_stream_arg: TRUE iff exactly one is given.
check_for_exactly_one_stream_arg(stream_id, stream) ==
    (stream_id = None) # (stream = None)

\* A resolver's answer.
Resolved(id) == [result |-> OK, stream |-> id, msg |-> ""]
Unresolved(err, msg) == [result |-> err, stream |-> 0, msg |-> msg]

CheckAccess(user, id) ==
    IF <<user, id>> \in Access
    THEN Resolved(id)
    ELSE Unresolved(AccessDenied, "Invalid channel ID")

\* access_stream_by_id: Lookup mode.
access_stream_by_id(user, stream_id) ==
    IF \E st \in Streams : st.id = stream_id
    THEN CheckAccess(user, stream_id)
    ELSE Unresolved(StreamNotFound, "Invalid channel ID")

\* access_stream_by_name: Lookup mode.
access_stream_by_name(user, stream_name) ==
    IF \E st \in Streams : st.name = stream_name
    THEN CheckAccess(user, (CHOOSE st \in Streams : st.name = stream_name).id)
    ELSE Unresolved(StreamNotFound, "Invalid channel name")

\* The removal check.  The resolver is handed the user and the stream
\* reference only, never the topic: it can ask no more than whether the
\* user holds an override somewhere in the stream.
HasOverrideInStream(s, user, id) ==
    \E r \in s : r.user = user /\ r.stream = id

RemovalCheck(s, user, res, error) ==
    IF res.result # OK THEN res
    ELSE IF HasOverrideInStream(s, user, res.stream) THEN res
    ELSE Unresolved(NoOverrideToRemove, error)

\* access_stream_to_remove_visibility_policy_by_id: RemovalLookup mode.
access_stream_to_remove_visibility_policy_by_id(s, user, stream_id, error) ==
    RemovalCheck(s, user, access_stream_by_id(user, stream_id), error)

\* access_stream_to_remove_visibility_policy_by_name: RemovalLookup mode.
access_stream_to_remove_visibility_policy_by_name(s, user, stream_name, error) ==
    RemovalCheck(s, user, access_stream_by_name(user, stream_name), error)

\* The rows of a key.
RowsOf(s, user, id, topic) ==
    {r \in s : r.user = user /\ r.stream = id
               /\ r.topic_name = NormalizeTopic(topic)}

\* do_set_user_topic_visibility_policy: INHERIT deletes the key's row (a
\* no-op when there is none), any other policy upserts it.
do_set_user_topic_visibility_policy(s, user, id, topic, policy, last_updated) ==
    IF policy = INHERIT
    THEN s \ RowsOf(s, user, id, topic)
    ELSE (s \ RowsOf(s, user, id, topic))
         \cup {[user |-> user, stream |-> id,
                topic_name |-> NormalizeTopic(topic),
                visibility_policy |-> policy,
                last_updated |-> last_updated]}

---------------------------------------------------------------------------
(* The view *)

\* mute_topic writing the row before the stream is resolved.
mute_topic_WritesBeforeLookup(s, user, stream_id, stream_name, topic_name, date_muted) ==
    IF stream_name = None /\ stream_id = None
    THEN Outcome(s, AssertionError, "", <<>>)
    ELSE LET res == IF stream_name # None
                    THEN access_stream_by_name(user, Val(stream_name))
                    ELSE access_stream_by_id(user, Val(stream_id))
             raw == IF stream_id # None THEN Val(stream_id) ELSE 1
             written == do_set_user_topic_visibility_policy(
                            s, user, IF res.result = OK THEN res.stream ELSE raw,
                            topic_name, MUTED, date_muted)
         IN  IF res.result # OK
             THEN Outcome(written, res.result, res.msg, <<"set", "lookup">>)
             ELSE Outcome(written, OK, "", <<"set", "lookup">>)

\* mute_topic refusing a key that already has an override.
mute_topic_RejectsExisting(s, user, stream_id, stream_name, topic_name, date_muted) ==
    IF stream_name = None /\ stream_id = None
    THEN Outcome(s, AssertionError, "", <<>>)
    ELSE LET res == IF stream_name # None
                    THEN access_stream_by_name(user, Val(stream_name))
                    ELSE access_stream_by_id(user, Val(stream_id))
         IN  IF res.result # OK
             THEN Outcome(s, res.result, res.msg, <<"lookup">>)
             ELSE IF RowsOf(s, user, res.stream, topic_name) # {}
             THEN Outcome(s, "AlreadyMuted", "Topic already muted", <<"lookup">>)
             ELSE Outcome(do_set_user_topic_visibility_policy(
                              s, user, res.stream, topic_name, MUTED, date_muted),
                          OK, "", <<"lookup", "set">>)

\* mute_topic leaving a row that is already MUTED as it is.
mute_topic_SkipsIfMuted(s, user, stream_id, stream_name, topic_name, date_muted) ==
    IF stream_name = None /\ stream_id = None
    THEN Outcome(s, AssertionError, "", <<>>)
    ELSE LET res == IF stream_name # None
                    THEN access_stream_by_name(user, Val(stream_name))
                    ELSE access_stream_by_id(user, Val(stream_id))
         IN  IF res.result # OK
             THEN Outcome(s, res.result, res.msg, <<"lookup">>)
             ELSE IF \E x \in RowsOf(s, user, res.stream, topic_name) :
                        x.visibility_policy = MUTED
             THEN Outcome(s, OK, "", <<"lookup">>)
             ELSE Outcome(do_set_user_topic_visibility_policy(
                              s, user, res.stream, topic_name, MUTED, date_muted),
                          OK, "", <<"lookup", "set">>)

\* mute_topic: resolve by name when a name is given, else by id (asserting
\* that there is one), then set MUTED with last_updated = date_muted.
mute_topic(s, user, stream_id, stream_name, topic_name, date_muted) ==
    IF stream_name = None /\ stream_id = None
    THEN Outcome(s, AssertionError, "", <<>>)
    ELSE LET res == IF stream_name # None
                    THEN access_stream_by_name(user, Val(stream_name))
                    ELSE access_stream_by_id(user, Val(stream_id))
         IN  IF res.result # OK
             THEN Outcome(s, res.result, res.msg, <<"lookup">>)
             ELSE Outcome(do_set_user_topic_visibility_policy(
                              s, user, res.stream, topic_name, MUTED, date_muted),
                          OK, "", <<"lookup", "set">>)

\* unmute_topic writing a row that carries INHERIT instead of deleting.
unmute_topic_StoresInherit(s, user, stream_id, stream_name, topic_name, t) ==
    IF stream_name = None /\ stream_id = None
    THEN Outcome(s, AssertionError, "", <<>>)
    ELSE LET error == "Topic is not muted"
             res == IF stream_name # None
                    THEN access_stream_to_remove_visibility_policy_by_name(
                             s, user, Val(stream_name), error)
                    ELSE access_stream_to_remove_visibility_policy_by_id(
                             s, user, Val(stream_id), error)
         IN  IF res.result # OK
             THEN Outcome(s, res.result, res.msg, <<"lookup">>)
             ELSE Outcome((s \ RowsOf(s, user, res.stream, topic_name))
                          \cup {[user |-> user, stream |-> res.stream,
                                 topic_name |-> NormalizeTopic(topic_name),
                                 visibility_policy |-> INHERIT,
                                 last_updated |-> t]},
                          OK, "", <<"lookup", "set">>)

\* unmute_topic clearing the row of the topic name exactly as given.
unmute_topic_ExactName(s, user, stream_id, stream_name, topic_name, t) ==
    IF stream_name = None /\ stream_id = None
    THEN Outcome(s, AssertionError, "", <<>>)
    ELSE LET error == "Topic is not muted"
             res == IF stream_name # None
                    THEN access_stream_to_remove_visibility_policy_by_name(
                             s, user, Val(stream_name), error)
                    ELSE access_stream_to_remove_visibility_policy_by_id(
                             s, user, Val(stream_id), error)
         IN  IF res.result # OK
             THEN Outcome(s, res.result, res.msg, <<"lookup">>)
             ELSE Outcome({x \in s : ~(/\ x.user = user /\ x.stream = res.stream
                                       /\ x.topic_name = topic_name)},
                          OK, "", <<"lookup", "set">>)

\* unmute_topic narrowed to keys whose override is exactly MUTED.
unmute_topic_OnlyMuted(s, user, stream_id, stream_name, topic_name, t) ==
    IF stream_name = None /\ stream_id = None
    THEN Outcome(s, AssertionError, "", <<>>)
    ELSE LET error == "Topic is not muted"
             res == IF stream_name # None
                    THEN access_stream_to_remove_visibility_policy_by_name(
                             s, user, Val(stream_name), error)
                    ELSE access_stream_to_remove_visibility_policy_by_id(
                             s, user, Val(stream_id), error)
         IN  IF res.result # OK
             THEN Outcome(s, res.result, res.msg, <<"lookup">>)
             ELSE IF \E x \in RowsOf(s, user, res.stream, topic_name) :
                        x.visibility_policy # MUTED
             THEN Outcome(s, NoOverrideToRemove, error, <<"lookup">>)
             ELSE Outcome(do_set_user_topic_visibility_policy(
                              s, user, res.stream, topic_name, INHERIT, t),
                          OK, "", <<"lookup", "set">>)

\* unmute_topic clearing every override the user holds in the stream.
unmute_topic_ClearsStream(s, user, stream_id, stream_name, topic_name, t) ==
    IF stream_name = None /\ stream_id = None
    THEN Outcome(s, AssertionError, "", <<>>)
    ELSE LET error == "Topic is not muted"
             res == IF stream_name # None
                    THEN access_stream_to_remove_visibility_policy_by_name(
                             s, user, Val(stream_name), error)
                    ELSE access_stream_to_remove_visibility_policy_by_id(
                             s, user, Val(stream_id), error)
         IN  IF res.result # OK
             THEN Outcome(s, res.result, res.msg, <<"lookup">>)
             ELSE Outcome({x \in s : ~(x.user = user /\ x.stream = res.stream)},
                          OK, "", <<"lookup", "set">>)

\* unmute_topic: resolve in removal mode with the message "Topic is not
\* muted", then set INHERIT.  It passes no last_updated: the store writer
\* takes the current time t.
unmute_topic(s, user, stream_id, stream_name, topic_name, t) ==
    IF stream_name = None /\ stream_id = None
    THEN Outcome(s, AssertionError, "", <<>>)
    ELSE LET error == "Topic is not muted"
             res == IF stream_name # None
                    THEN access_stream_to_remove_visibility_policy_by_name(
                             s, user, Val(stream_name), error)
                    ELSE access_stream_to_remove_visibility_policy_by_id(
                             s, user, Val(stream_id), error)
         IN  IF res.result # OK
             THEN Outcome(s, res.result, res.msg, <<"lookup">>)
             ELSE Outcome(do_set_user_topic_visibility_policy(
                              s, user, res.stream, topic_name, INHERIT, t),
                          OK, "", <<"lookup", "set">>)

\* update_muted_topic without the exactly-one check.
update_muted_topic_NoCheck(s, user, stream_id, stream, topic, op, t) ==
    IF op = "add"
    THEN mute_topic(s, user, stream_id, stream, topic, t)
    ELSE unmute_topic(s, user, stream_id, stream, topic, t)

\* update_muted_topic passing a fixed epoch as date_muted.
update_muted_topic_Backdates(s, user, stream_id, stream, topic, op, t) ==
    IF ~check_for_exactly_one_stream_arg(stream_id, stream)
    THEN Outcome(s, AmbiguousOrMissingStreamReference,
                 "Please supply exactly one of 'stream_id' or 'stream'", <<>>)
    ELSE IF op = "add"
         THEN mute_topic(s, user, stream_id, stream, topic, 0)
         ELSE unmute_topic(s, user, stream_id, stream, topic, t)

\* update_muted_topic refusing only requests that give both forms.
update_muted_topic_RejectsOnlyBoth(s, user, stream_id, stream, topic, op, t) ==
    IF stream_id # None /\ stream # None
    THEN Outcome(s, AmbiguousOrMissingStreamReference,
                 "Please supply exactly one of 'stream_id' or 'stream'", <<>>)
    ELSE IF op = "add"
         THEN mute_topic(s, user, stream_id, stream, topic, t)
         ELSE unmute_topic(s, user, stream_id, stream, topic, t)

\* update_muted_topic: the exactly-one check, then mute_topic with
\* date_muted = timezone_now() for op "add", unmute_topic for op "remove".
update_muted_topic(s, user, stream_id, stream, topic, op, t) ==
    IF ~check_for_exactly_one_stream_arg(stream_id, stream)
    THEN Outcome(s, AmbiguousOrMissingStreamReference,
                 "Please supply exactly one of 'stream_id' or 'stream'", <<>>)
    ELSE IF op = "add"
         THEN mute_topic(s, user, stream_id, stream, topic, t)
         ELSE unmute_topic(s, user, stream_id, stream, topic, t)

\* update_user_topic without the validator on visibility_policy.
update_user_topic_NoValidation(s, user, stream_id, topic, visibility_policy, t) ==
    LET res == IF visibility_policy = INHERIT
               THEN access_stream_to_remove_visibility_policy_by_id(
                        s, user, stream_id, "Invalid channel ID")
               ELSE access_stream_by_id(user, stream_id)
    IN  IF res.result # OK
        THEN Outcome(s, res.result, res.msg, <<"lookup">>)
        ELSE Outcome(do_set_user_topic_visibility_policy(
                         s, user, res.stream, topic, visibility_policy, t),
                     OK, "", <<"lookup", "set">>)

\* update_user_topic resolving in Lookup mode whatever the policy.
update_user_topic_AlwaysLookup(s, user, stream_id, topic, visibility_policy, t) ==
    IF visibility_policy \notin VisibilityPolicyValues
    THEN Outcome(s, InvalidPolicyValue, "Invalid visibility_policy", <<>>)
    ELSE LET res == access_stream_by_id(user, stream_id)
         IN  IF res.result # OK
             THEN Outcome(s, res.result, res.msg, <<"lookup">>)
             ELSE Outcome(do_set_user_topic_visibility_policy(
                              s, user, res.stream, topic, visibility_policy, t),
                          OK, "", <<"lookup", "set">>)

\* update_user_topic resolving for INHERIT and then writing nothing.
update_user_topic_InheritNoClear(s, user, stream_id, topic, visibility_policy, t) ==
    IF visibility_policy \notin VisibilityPolicyValues
    THEN Outcome(s, InvalidPolicyValue, "Invalid visibility_policy", <<>>)
    ELSE LET res == IF visibility_policy = INHERIT
                    THEN access_stream_to_remove_visibility_policy_by_id(
                             s, user, stream_id, "Invalid channel ID")
                    ELSE access_stream_by_id(user, stream_id)
         IN  IF res.result # OK
             THEN Outcome(s, res.result, res.msg, <<"lookup">>)
             ELSE IF visibility_policy = INHERIT
             THEN Outcome(s, OK, "", <<"lookup">>)
             ELSE Outcome(do_set_user_topic_visibility_policy(
                              s, user, res.stream, topic, visibility_policy, t),
                          OK, "", <<"lookup", "set">>)

\* update_user_topic: the validator of the parameter runs before the body;
\* INHERIT resolves in removal mode with the message "Invalid channel ID",
\* any other policy in Lookup mode; then the policy is set, with the
\* current time t as last_updated.
update_user_topic(s, user, stream_id, topic, visibility_policy, t) ==
    IF visibility_policy \notin VisibilityPolicyValues
    THEN Outcome(s, InvalidPolicyValue, "Invalid visibility_policy", <<>>)
    ELSE LET res == IF visibility_policy = INHERIT
                    THEN access_stream_to_remove_visibility_policy_by_id(
                             s, user, stream_id, "Invalid channel ID")
                    ELSE access_stream_by_id(user, stream_id)
         IN  IF res.result # OK
             THEN Outcome(s, res.result, res.msg, <<"lookup">>)
             ELSE Outcome(do_set_user_topic_visibility_policy(
                              s, user, res.stream, topic, visibility_policy, t),
                          OK, "", <<"lookup", "set">>)

---------------------------------------------------------------------------
(* The view, call by call: resolving the stream and writing the store are *)
(* two calls, with no transaction around them                             *)

\* mute_topic up to its resolver call.
mute_topic_resolve(user, stream_id, stream_name) ==
    IF stream_name = None /\ stream_id = None
    THEN Unresolved(AssertionError, "")
    ELSE IF stream_name # None
         THEN access_stream_by_name(user, Val(stream_name))
         ELSE access_stream_by_id(user, Val(stream_id))

\* mute_topic's call of the store writer.
mute_topic_set(s, user, stream, topic_name, date_muted) ==
    do_set_user_topic_visibility_policy(s, user, stream, topic_name, MUTED,
                                        date_muted)

\* unmute_topic up to its resolver call, which reads the store.
unmute_topic_resolve(s, user, stream_id, stream_name) ==
    IF stream_name = None /\ stream_id = None
    THEN Unresolved(AssertionError, "")
    ELSE IF stream_name # None
         THEN access_stream_to_remove_visibility_policy_by_name(
                  s, user, Val(stream_name), "Topic is not muted")
         ELSE access_stream_to_remove_visibility_policy_by_id(
                  s, user, Val(stream_id), "Topic is not muted")

\* unmute_topic's call of the store writer.
unmute_topic_set(s, user, stream, topic_name, t) ==
    do_set_user_topic_visibility_policy(s, user, stream, topic_name, INHERIT, t)

\* update_muted_topic up to the resolver call of the function it dispatches
\* to.
update_muted_topic_resolve(s, user, stream_id, stream, op) ==
    IF ~check_for_exactly_one_stream_arg(stream_id, stream)
    THEN Unresolved(AmbiguousOrMissingStreamReference,
                    "Please supply exactly one of 'stream_id' or 'stream'")
    ELSE IF op = "add"
         THEN mute_topic_resolve(user, stream_id, stream)
         ELSE unmute_topic_resolve(s, user, stream_id, stream)

\* update_user_topic up to its resolver call.
update_user_topic_resolve(s, user, stream_id, visibility_policy) ==
    IF visibility_policy \notin VisibilityPolicyValues
    THEN Unresolved(InvalidPolicyValue, "Invalid visibility_policy")
    ELSE IF visibility_policy = INHERIT
         THEN access_stream_to_remove_visibility_policy_by_id(
                  s, user, stream_id, "Invalid channel ID")
         ELSE access_stream_by_id(user, stream_id)

\* update_user_topic creating a row of its own instead of calling the store
\* writer.
update_user_topic_set_Inserts(s, user, stream, topic, visibility_policy, t) ==
    IF visibility_policy = INHERIT
    THEN s \ RowsOf(s, user, stream, topic)
    ELSE s \cup {[user |-> user, stream |-> stream,
                  topic_name |-> NormalizeTopic(topic),
                  visibility_policy |-> visibility_policy,
                  last_updated |-> t]}

\* update_user_topic's call of the store writer.
update_user_topic_set(s, user, stream, topic, visibility_policy, t) ==
    do_set_user_topic_visibility_policy(s, user, stream, topic,
                                        visibility_policy, t)

---------------------------------------------------------------------------
(* get_stream_topic_counts and the message store it reads *)

\* stream.recipient_id
RecipientOf(stream_id) == 100 + stream_id

\* A message row: id, recipient_id, is_channel_message, subject.
Msg(id, recipient, channel, subject) ==
    [id |-> id, recipient_id |-> recipient, is_channel_message |-> channel,
     subject |-> subject]

\* Message stores a request may find.  The first: stream 1 has topics a, b
\* (two messages) and c, stream 2 has topic a, and a direct message carries
\* the subject b.  The second: stream 1 has messages under "a" and under "A",
\* stream 2 under "B".
MsgsPlain ==
    {Msg(1, RecipientOf(1), TRUE, <<"a">>), Msg(2, RecipientOf(1), TRUE, <<"b">>),
     Msg(3, RecipientOf(1), TRUE, <<"b">>), Msg(4, RecipientOf(1), TRUE, <<"c">>),
     Msg(5, RecipientOf(2), TRUE, <<"a">>), Msg(6, 7, FALSE, <<"b">>)}

MsgsCase ==
    {Msg(1, RecipientOf(1), TRUE, <<"a">>), Msg(2, RecipientOf(1), TRUE, <<"A">>),
     Msg(3, RecipientOf(2), TRUE, <<"B">>)}

MessageStores == {MsgsPlain, MsgsCase}

\* The response: the outcome and the counts.
CountsOutcome(s, result, msg, total, followed) ==
    [store |-> s, result |-> result, msg |-> msg, steps |-> <<"lookup">>,
     total_topics |-> total, followed_topics |-> followed]

\* The distinct subjects of the channel messages of a recipient.
TopicNames(msgs, recipient_id) ==
    {m.subject : m \in {x \in msgs : /\ x.recipient_id = recipient_id
                                      /\ x.is_channel_message}}

\* get_stream_topic_counts applying the ordinary access check.
get_stream_topic_counts_ChecksAccess(s, msgs, user, stream_id) ==
    IF access_stream_by_id(user, stream_id).result # OK
    THEN CountsOutcome(s, StreamNotFound, "Invalid stream ID", 0, 0)
    ELSE LET topic_names == TopicNames(msgs, RecipientOf(stream_id))
         IN  CountsOutcome(s, OK, "", Cardinality(topic_names),
                 Cardinality({r \in s : /\ r.user = user
                                        /\ r.stream = stream_id
                                        /\ r.visibility_policy = FOLLOWED
                                        /\ r.topic_name \in topic_names}))

\* get_stream_topic_counts counting every FOLLOWED row of the stream.
get_stream_topic_counts_NoTopicFilter(s, msgs, user, stream_id) ==
    IF ~\E st \in Streams : st.id = stream_id
    THEN CountsOutcome(s, StreamNotFound, "Invalid stream ID", 0, 0)
    ELSE LET topic_names == TopicNames(msgs, RecipientOf(stream_id))
         IN  CountsOutcome(s, OK, "", Cardinality(topic_names),
                 Cardinality({r \in s : /\ r.user = user
                                        /\ r.stream = stream_id
                                        /\ r.visibility_policy = FOLLOWED}))

\* get_stream_topic_counts: the stream by id, no access check; the distinct
\* subjects of its channel messages; the user's FOLLOWED rows of the stream
\* whose topic_name is one of those subjects.  Subjects and topic names are
\* compared as they are stored.
get_stream_topic_counts(s, msgs, user, stream_id) ==
    IF ~\E st \in Streams : st.id = stream_id
    THEN CountsOutcome(s, StreamNotFound, "Invalid stream ID", 0, 0)
    ELSE LET topic_names == TopicNames(msgs, RecipientOf(stream_id))
         IN  CountsOutcome(s, OK, "", Cardinality(topic_names),
                 Cardinality({r \in s : /\ r.user = user
                                        /\ r.stream = stream_id
                                        /\ r.visibility_policy = FOLLOWED
                                        /\ r.topic_name \in topic_names}))

---------------------------------------------------------------------------
(* The state machine *)

\* The stream a request's reference denotes: the stream of that name or of
\* that id; 0 when no stream has it, and when the request gives both forms
\* or neither.
StreamOfArgs(stream_id, stream) ==
    IF stream # None /\ stream_id = None
    THEN IF \E st \in Streams : st.name = Val(stream)
         THEN (CHOOSE st \in Streams : st.name = Val(stream)).id
         ELSE 0
    ELSE IF stream = None /\ stream_id # None
              /\ (\E st \in Streams : st.id = Val(stream_id))
         THEN Val(stream_id)
         ELSE 0

\* The key a request addresses.
KeyOfArgs(user, stream_id, stream, topic) ==
    <<user, StreamOfArgs(stream_id, stream), NormalizeTopic(topic)>>

KeyOf(r) == KeyOfArgs(r.user, r.stream_id, r.stream, r.topic)

\* What a request comes after: the request handled just before it, when that
\* one succeeded on the same key; <<>> otherwise.
After(prev, key) ==
    IF prev.cmd # "none" /\ prev.result = OK /\ KeyOf(prev) = key
    THEN <<prev.cmd, prev.op, prev.policy>>
    ELSE <<>>

\* The request handled last: its arguments, what it came after, and its
\* outcome.
Request(cmd, user, stream_id, stream, topic, op, policy, prev, out) ==
    [cmd |-> cmd, user |-> user, stream_id |-> stream_id, stream |-> stream,
     topic |-> topic, op |-> op, policy |-> policy,
     after |-> After(prev, KeyOfArgs(user, stream_id, stream, topic)),
     result |-> out.result, msg |-> out.msg, steps |-> out.steps]

NoRequest ==
    [cmd |-> "none", user |-> "", stream_id |-> None, stream |-> None,
     topic |-> <<>>, op |-> "", policy |-> INHERIT, after |-> <<>>,
     result |-> "", msg |-> "", steps |-> <<>>]

\* No request is in flight when requests are handled one at a time.
NoneInFlight == [start |-> {}, calls |-> <<>>]

Init ==
    /\ store = {}
    /\ now = 0
    /\ last = NoRequest
    /\ conc = NoneInFlight

\* The (stream_id, stream) pairs a request may carry: one of the two, neither,
\* or both.
StreamArgs ==
    {<<Some(i), None>> : i \in StreamIdInputs}
    \cup {<<None, Some(n)>> : n \in StreamNameInputs}
    \cup {<<None, None>>, <<Some(2), Some("s1")>>}

UpdateMutedTopic ==
    /\ now < MaxClock
    /\ \E user \in Users, arg \in StreamArgs,
          topic \in TopicInputs, op \in {"add", "remove"} :
          \E out \in {update_muted_topic(store, user, arg[1], arg[2],
                                         topic, op, now)} :
              /\ store' = out.store
              /\ last' = Request("update_muted_topic", user, arg[1], arg[2],
                                 topic, op, INHERIT, last, out)
    /\ now' = now + 1
    /\ UNCHANGED conc

UpdateUserTopic ==
    /\ now < MaxClock
    /\ \E user \in Users, stream_id \in StreamIdInputs,
          topic \in TopicInputs, policy \in PolicyInputs :
          \E out \in {update_user_topic(store, user, stream_id, topic,
                                        policy, now)} :
              /\ store' = out.store
              /\ last' = Request("update_user_topic", user, Some(stream_id),
                                 None, topic, "", policy, last, out)
    /\ now' = now + 1
    /\ UNCHANGED conc

Next == UpdateMutedTopic \/ UpdateUserTopic

Spec == Init /\ [][Next]_vars

\* A request to get_stream_topic_counts: besides the fields of every request,
\* the message store it found and the counts it returned.
CountsRequest(user, stream_id, msgs, out) ==
    [cmd |-> "get_stream_topic_counts", user |-> user,
     stream_id |-> Some(stream_id), stream |-> None, topic |-> <<>>,
     op |-> "", policy |-> INHERIT, after |-> <<>>,
     result |-> out.result, msg |-> out.msg, steps |-> out.steps,
     messages |-> msgs,
     total_topics |-> out.total_topics,
     followed_topics |-> out.followed_topics]

GetStreamTopicCounts ==
    /\ now < MaxClock
    /\ \E user \in Users, stream_id \in StreamIdInputs, msgs \in MessageStores :
          \E out \in {get_stream_topic_counts(store, msgs, user, stream_id)} :
              /\ store' = out.store
              /\ last' = CountsRequest(user, stream_id, msgs, out)
    /\ now' = now + 1
    /\ UNCHANGED conc

\* The endpoints of the view, get_stream_topic_counts among them.
NextCounts == UpdateMutedTopic \/ UpdateUserTopic \/ GetStreamTopicCounts

SpecCounts == Init /\ [][NextCounts]_vars

---------------------------------------------------------------------------
(* Requests in flight at once *)

\* The requests that race are one user's, on one key of one stream.
ConcUser == "u1"
ConcStream == 1
ConcTopic == <<"a">>

Row(topic_name, policy, t) ==
    [user |-> ConcUser, stream |-> ConcStream, topic_name |-> topic_name,
     visibility_policy |-> policy, last_updated |-> t]

\* The stores the race starts from: none of the user's overrides, the key's
\* only, and the key's beside another topic's of the same stream.
ConcStores ==
    { {},
      {Row(<<"a">>, MUTED, 0)},
      {Row(<<"a">>, MUTED, 1), Row(<<"b">>, FOLLOWED, 0)} }

\* A request that has not started: the command and its parameters.  pc is
\* the position of its handler: before the resolver call ("start"), between
\* the resolver and the store writer ("resolved"), or returned ("done");
\* started is the time it came in, which update_muted_topic takes as
\* date_muted.
Call(cmd, op, policy) ==
    [cmd |-> cmd, op |-> op, policy |-> policy, topic |-> ConcTopic,
     stream_id |-> Some(ConcStream), stream |-> None,
     pc |-> "start", resolved |-> 0, started |-> 0,
     result |-> "", msg |-> ""]

ConcCommands ==
    {Call("update_muted_topic", "add", MUTED),
     Call("update_muted_topic", "remove", INHERIT)}
    \cup {Call("update_user_topic", "", p) : p \in {INHERIT, UNMUTED, FOLLOWED}}

Procs == 1..NumProcs

InitConc ==
    /\ store \in ConcStores
    /\ now = 2
    /\ last = NoRequest
    /\ conc \in {[start |-> store, calls |-> c] : c \in [Procs -> ConcCommands]}

\* The handler of a call up to its resolver call.
ResolveOf(s, c) ==
    IF c.cmd = "update_muted_topic"
    THEN update_muted_topic_resolve(s, ConcUser, c.stream_id, c.stream, c.op)
    ELSE update_user_topic_resolve(s, ConcUser, Val(c.stream_id), c.policy)

\* The handler of a call from its resolver's answer on: the store writer.
\* mute_topic writes the date_muted taken when the request came in, the
\* other two the time of the write.
SetOf(s, c, t) ==
    IF c.cmd = "update_muted_topic"
    THEN IF c.op = "add"
         THEN mute_topic_set(s, ConcUser, c.resolved, c.topic, c.started)
         ELSE unmute_topic_set(s, ConcUser, c.resolved, c.topic, t)
    ELSE update_user_topic_set(s, ConcUser, c.resolved, c.topic, c.policy, t)

\* A request runs from its start to the return of its resolver: it fails
\* there, or goes on to the store writer.
ConcResolve ==
    \E p \in DOMAIN conc.calls :
        /\ conc.calls[p].pc = "start"
        /\ \E res \in {ResolveOf(store, conc.calls[p])} :
              conc' = [conc EXCEPT !.calls[p] =
                          IF res.result # OK
                          THEN [@ EXCEPT !.pc = "done",
                                         !.result = res.result,
                                         !.msg = res.msg]
                          ELSE [@ EXCEPT !.pc = "resolved",
                                         !.resolved = res.stream,
                                         !.started = now]]
        /\ now' = now + 1
        /\ UNCHANGED <<store, last>>

\* A request's store writer runs, atomically, and the request returns.
ConcSet ==
    \E p \in DOMAIN conc.calls :
        /\ conc.calls[p].pc = "resolved"
        /\ store' = SetOf(store, conc.calls[p], now)
        /\ conc' = [conc EXCEPT !.calls[p] =
                       [@ EXCEPT !.pc = "done", !.result = OK]]
        /\ now' = now + 1
        /\ UNCHANGED last

NextConc == ConcResolve \/ ConcSet

SpecConc == InitConc /\ [][NextConc]_vars

---------------------------------------------------------------------------
(* Vocabulary of the properties *)

IsMute(r) == r.cmd = "update_muted_topic" /\ r.op = "add"
IsUnmute(r) == r.cmd = "update_muted_topic" /\ r.op = "remove"
IsSet(r) == r.cmd = "update_user_topic"

\* The request names its stream in exactly one way.
OneRef(r) ==
    \/ r.stream_id # None /\ r.stream = None
    \/ r.stream_id = None /\ r.stream # None

\* The request's stream exists and its user passes the ordinary access check.
Accessible(r) ==
    /\ KeyOf(r)[2] # 0
    /\ <<r.user, KeyOf(r)[2]>> \in Access

\* The rows of store s under the key of request r.
KeyRows(s, r) ==
    {x \in s : <<x.user, x.stream, x.topic_name>> = KeyOf(r)}

\* The rows of store s that the user of request r holds in r's stream.
StreamRows(s, r) ==
    {x \in s : x.user = r.user /\ x.stream = KeyOf(r)[2]}

StoredPolicies == {MUTED, UNMUTED, FOLLOWED}

---------------------------------------------------------------------------
(* C1 *)

\* C1: unmute_topic on a key of an accessible stream for which no override
\* record exists fails with NoOverrideToRemove ("Topic is not muted") and
\* leaves the store unchanged, whatever overrides the same user holds on
\* other topics of the same stream.
C1_UnmuteWithoutOverrideFails ==
    [][(/\ IsUnmute(last') /\ OneRef(last') /\ Accessible(last')
        /\ KeyRows(store, last') = {})
       => (/\ last'.result = NoOverrideToRemove
           /\ last'.msg = "Topic is not muted"
           /\ store' = store)]_vars

---------------------------------------------------------------------------
(* C2 *)

\* C2: a command that fails with an error of the taxonomy leaves the store
\* as it was, and a failed command has performed no store write: resolution
\* comes before mutation.
C2_FailureLeavesStore ==
    [][last'.result \in Taxonomy
       => (/\ store' = store
           /\ \A i \in 1..Len(last'.steps) : last'.steps[i] # "set")]_vars

\* A command failed at the removal check while the store held overrides.
C2_Witness ==
    /\ last.result = NoOverrideToRemove
    /\ last.steps = <<"lookup">>
    /\ store # {}

---------------------------------------------------------------------------
(* C3 *)

\* C3: every stored record carries MUTED, UNMUTED or FOLLOWED, never INHERIT,
\* and after a successful command a record exists for its key exactly when
\* the policy it set is not INHERIT, in which case it is the one record of
\* the key and carries that policy.
SetPolicyOf(r) ==
    IF IsMute(r) THEN MUTED ELSE IF IsUnmute(r) THEN INHERIT ELSE r.policy

C3_RecordIffNotInherit ==
    /\ \A x \in store : x.visibility_policy \in StoredPolicies
    /\ (last.cmd # "none" /\ last.result = OK)
       => /\ (KeyRows(store, last) # {}) <=> (SetPolicyOf(last) # INHERIT)
          /\ \A x \in KeyRows(store, last) :
                x.visibility_policy = SetPolicyOf(last)

\* A removal succeeded on one key while another key still holds a record.
C3_Witness ==
    /\ last.result = OK
    /\ SetPolicyOf(last) = INHERIT
    /\ last.after # <<>>
    /\ KeyRows(store, last) = {}
    /\ store # {}

---------------------------------------------------------------------------
(* C4 *)

\* C4: update_muted_topic (add or remove) with both stream_id and stream
\* given, or with neither, fails with AmbiguousOrMissingStreamReference
\* before any stream lookup and before any store write.
C4_ExactlyOneStreamArg ==
    [][(last'.cmd = "update_muted_topic" /\ ~OneRef(last'))
       => (/\ last'.result = AmbiguousOrMissingStreamReference
           /\ last'.steps = <<>>
           /\ store' = store)]_vars

\* A request with both forms was refused while the store held overrides.
C4_Witness ==
    /\ last.cmd = "update_muted_topic"
    /\ last.stream_id # None /\ last.stream # None
    /\ last.result = AmbiguousOrMissingStreamReference
    /\ store # {}

---------------------------------------------------------------------------
(* C5 *)

\* C5: an unmute_topic that comes right after a successful mute_topic on the
\* same key succeeds and leaves no override record for that key.
C5_MuteThenUnmute ==
    (IsUnmute(last) /\ last.after = <<"update_muted_topic", "add", INHERIT>>)
    => (last.result = OK /\ KeyRows(store, last) = {})

\* The unmute has run after the mute, named by another spelling of the
\* topic, while the user holds other overrides.
C5_Witness ==
    /\ IsUnmute(last)
    /\ last.after = <<"update_muted_topic", "add", INHERIT>>
    /\ last.result = OK
    /\ KeyRows(store, last) = {}
    /\ store # {}

---------------------------------------------------------------------------
(* C6 *)

\* C6: update_user_topic with a visibility_policy that is not one of the
\* enum's codes fails with InvalidPolicyValue before any stream resolution
\* and writes nothing.
C6_InvalidPolicyRejected ==
    [][(IsSet(last') /\ last'.policy \notin {INHERIT, MUTED, UNMUTED, FOLLOWED})
       => (/\ last'.result = InvalidPolicyValue
           /\ last'.steps = <<>>
           /\ store' = store)]_vars

\* An out-of-range policy was refused on an accessible stream.
C6_Witness ==
    /\ IsSet(last)
    /\ last.policy = 4
    /\ Accessible(last)
    /\ last.result = InvalidPolicyValue
    /\ store # {}

---------------------------------------------------------------------------
(* C7 *)

\* C7: update_user_topic with INHERIT resolves in removal mode: on an
\* accessible stream in which the user holds no override on any topic it
\* fails with NoOverrideToRemove ("Invalid channel ID") and writes nothing;
\* when it succeeds no record remains for the key.
C7_InheritUsesRemovalLookup ==
    [][(IsSet(last') /\ last'.policy = INHERIT)
       => /\ (Accessible(last') /\ StreamRows(store, last') = {})
             => (/\ last'.result = NoOverrideToRemove
                 /\ last'.msg = "Invalid channel ID"
                 /\ store' = store)
          /\ last'.result = OK => KeyRows(store', last') = {}]_vars

\* INHERIT was refused for want of an override in the stream, while the
\* store held overrides elsewhere.
C7_Witness ==
    /\ IsSet(last)
    /\ last.policy = INHERIT
    /\ last.result = NoOverrideToRemove
    /\ last.msg = "Invalid channel ID"
    /\ store # {}

---------------------------------------------------------------------------
(* C8 *)

\* C8: after a successful update_user_topic with FOLLOWED the key reads
\* FOLLOWED; an update_user_topic with INHERIT right after it succeeds and a
\* lookup of the key finds no record.
C8_FollowThenInherit ==
    /\ (IsSet(last) /\ last.policy = FOLLOWED /\ last.result = OK)
       => /\ KeyRows(store, last) # {}
          /\ \A x \in KeyRows(store, last) : x.visibility_policy = FOLLOWED
    /\ (/\ IsSet(last) /\ last.policy = INHERIT
        /\ last.after = <<"update_user_topic", "", FOLLOWED>>)
       => (last.result = OK /\ KeyRows(store, last) = {})

\* INHERIT has run right after FOLLOWED on the same key, with other
\* overrides in the store.
C8_Witness ==
    /\ IsSet(last)
    /\ last.policy = INHERIT
    /\ last.after = <<"update_user_topic", "", FOLLOWED>>
    /\ last.result = OK
    /\ KeyRows(store, last) = {}
    /\ store # {}

---------------------------------------------------------------------------
(* C9 *)

\* C9: mute_topic has no error path beyond stream resolution: with one
\* stream reference to an accessible stream it succeeds whatever the key
\* held, and the key's record is then MUTED with last_updated equal to the
\* date_muted supplied (the time of the request).
C9_MuteOnlyFailsInResolution ==
    (IsMute(last) /\ OneRef(last) /\ Accessible(last))
    => /\ last.result = OK
       /\ KeyRows(store, last) # {}
       /\ \A x \in KeyRows(store, last) :
             x.visibility_policy = MUTED /\ x.last_updated = now - 1

\* A mute succeeded on a key that update_user_topic had just set to FOLLOWED.
C9_Witness ==
    /\ IsMute(last)
    /\ last.after = <<"update_user_topic", "", FOLLOWED>>
    /\ last.result = OK
    /\ \E x \in KeyRows(store, last) :
          x.visibility_policy = MUTED /\ x.last_updated = now - 1

---------------------------------------------------------------------------
(* C10 *)

\* The request sets MUTED, through either endpoint.
SetsMuted(r) == IsMute(r) \/ (IsSet(r) /\ r.policy = MUTED)

ComesAfterMuted(r) ==
    r.after \in {<<"update_muted_topic", "add", INHERIT>>,
                 <<"update_user_topic", "", MUTED>>}

\* C10: setting MUTED right after setting MUTED on the same key succeeds,
\* leaves exactly one record for the key, with policy MUTED, and its
\* last_updated is that of the second call.
C10_MutedTwice ==
    (SetsMuted(last) /\ ComesAfterMuted(last))
    => /\ last.result = OK
       /\ Cardinality(KeyRows(store, last)) = 1
       /\ \A x \in KeyRows(store, last) :
             x.visibility_policy = MUTED /\ x.last_updated = now - 1

\* MUTED was set twice in a row on one key; the record carries the second
\* call's time, later than the first's.
C10_Witness ==
    /\ SetsMuted(last)
    /\ ComesAfterMuted(last)
    /\ last.result = OK
    /\ now >= 2
    /\ \E x \in KeyRows(store, last) : x.last_updated = now - 1

---------------------------------------------------------------------------
(* C15 *)

\* C15: unmute_topic keeps the coarse removal check: on a key whose override
\* is FOLLOWED or UNMUTED it is not refused as "not muted"; it succeeds and
\* removes that record.
C15_UnmuteClearsAnyOverride ==
    [][(/\ IsUnmute(last') /\ OneRef(last')
        /\ \E x \in KeyRows(store, last') :
              x.visibility_policy \in {FOLLOWED, UNMUTED})
       => (last'.result = OK /\ KeyRows(store', last') = {})]_vars

\* An unmute succeeded on a key that had just been set to FOLLOWED.
C15_Witness ==
    /\ IsUnmute(last)
    /\ last.after = <<"update_user_topic", "", FOLLOWED>>
    /\ last.result = OK
    /\ KeyRows(store, last) = {}

---------------------------------------------------------------------------
(* C16 *)

\* C16: through the two endpoints, under a clock that does not go back, the
\* last_updated of a key's record never decreases from one write to the
\* next.
C16_LastUpdatedMonotonic ==
    [][\A x \in store, y \in store' :
          <<x.user, x.stream, x.topic_name>> = <<y.user, y.stream, y.topic_name>>
          => y.last_updated >= x.last_updated]_vars

\* A mute has rewritten the record that update_user_topic wrote one request
\* earlier; it carries the later time.
C16_Witness ==
    /\ IsMute(last)
    /\ last.after = <<"update_user_topic", "", UNMUTED>>
    /\ last.result = OK
    /\ now >= 2
    /\ \E x \in KeyRows(store, last) : x.last_updated = now - 1

---------------------------------------------------------------------------
(* C20 *)

\* C20: no call reached through update_muted_topic fails the assertion
\* "stream_id is not None": a request that gets as far as the stream lookup
\* names its stream in exactly one way, so the by-name branch runs only with
\* stream_id unset and the by-id branch only with stream_id set.
C20_AssertNeverFails ==
    last.cmd = "update_muted_topic"
    => /\ last.result # AssertionError
       /\ last.steps # <<>> => OneRef(last)

\* The by-id branch was taken, in mute_topic, and the assertion passed.
C20_Witness ==
    /\ IsMute(last)
    /\ last.stream = None
    /\ last.stream_id # None
    /\ last.steps = <<"lookup", "set">>
    /\ last.result = OK

---------------------------------------------------------------------------
(* Vocabulary of the properties of get_stream_topic_counts *)

IsCounts(r) == r.cmd = "get_stream_topic_counts"

StreamExists(id) == \E st \in Streams : st.id = id

\* The subjects of the channel messages of the stream of request r.
SubjectsSeen(r) ==
    {m.subject : m \in {x \in r.messages :
                           /\ x.recipient_id = RecipientOf(Val(r.stream_id))
                           /\ x.is_channel_message}}

\* The user of request r holds a FOLLOWED override, in r's stream, on the
\* topic named t, by the override store's identity of topics.
Follows(s, r, t) ==
    \E x \in RowsOf(s, r.user, Val(r.stream_id), t) :
        x.visibility_policy = FOLLOWED

---------------------------------------------------------------------------
(* C12 *)

\* C12: on an existing stream total_topics is the number of distinct topics
\* among the stream's channel messages, and followed_topics the number of
\* those topics on which the requesting user holds a FOLLOWED override;
\* overrides of other users, streams and policies are not counted.
C12_CountsAreExact ==
    (IsCounts(last) /\ StreamExists(Val(last.stream_id)))
    => /\ last.result = OK
       /\ last.total_topics = Cardinality(SubjectsSeen(last))
       /\ last.followed_topics =
             Cardinality({t \in SubjectsSeen(last) : Follows(store, last, t)})

---------------------------------------------------------------------------
(* C13 *)

\* C13: get_stream_topic_counts has no access gate beyond existence: it
\* fails, with StreamNotFound, exactly when no stream has the id, and it
\* returns counts for an existing stream also to a user whom the ordinary
\* access check refuses.
C13_CountsGateIsExistence ==
    IsCounts(last)
    => /\ last.result = StreamNotFound <=> ~StreamExists(Val(last.stream_id))
       /\ last.result = OK <=> StreamExists(Val(last.stream_id))

\* Counts were returned to a user whom the access check of the stream
\* refuses.
C13_Witness ==
    /\ IsCounts(last)
    /\ StreamExists(Val(last.stream_id))
    /\ <<last.user, Val(last.stream_id)>> \notin Access
    /\ last.result = OK
    /\ last.total_topics > 0

---------------------------------------------------------------------------
(* C14 *)

\* C14: topic identity in get_stream_topic_counts is that of the override
\* store: subjects that differ only in letter case are one topic of
\* total_topics, and a FOLLOWED override whose stored name differs only in
\* case from the messages' subject is counted in followed_topics.
C14_CountsIgnoreCase ==
    (IsCounts(last) /\ last.result = OK)
    => /\ last.total_topics =
             Cardinality({NormalizeTopic(t) : t \in SubjectsSeen(last)})
       /\ last.followed_topics =
             Cardinality({k \in {NormalizeTopic(t) : t \in SubjectsSeen(last)} :
                             Follows(store, last, k)})

---------------------------------------------------------------------------
(* C18 *)

\* C18: in every response of get_stream_topic_counts,
\* 0 <= followed_topics <= total_topics.
C18_FollowedAtMostTotal ==
    IsCounts(last)
    => /\ 0 <= last.followed_topics
       /\ last.followed_topics <= last.total_topics

\* All the topics of the stream are followed, and the user also follows a
\* topic of the stream that has no message.
C18_Witness ==
    /\ IsCounts(last)
    /\ last.result = OK
    /\ last.total_topics >= 1
    /\ last.followed_topics = last.total_topics
    /\ \E x \in store : /\ x.user = last.user
                        /\ x.stream = Val(last.stream_id)
                        /\ x.visibility_policy = FOLLOWED
                        /\ x.topic_name \notin SubjectsSeen(last)

---------------------------------------------------------------------------
(* C19 *)

RowKey(x) == <<x.user, x.stream, x.topic_name>>

\* C19: a mute, unmute or update_user_topic on a key leaves the record
\* (policy and last_updated) of every other key as it was; a
\* get_stream_topic_counts changes no record.
C19_Frame ==
    [][/\ last'.cmd \in {"update_muted_topic", "update_user_topic"}
          => \A x \in store \cup store' :
                RowKey(x) # KeyOf(last') => (x \in store /\ x \in store')
       /\ IsCounts(last') => store' = store]_vars

\* A command succeeded on a key while the store held a record of another
\* user on the same stream and topic and one of the same user on another
\* topic of the stream.
C19_Witness ==
    /\ last.cmd \in {"update_muted_topic", "update_user_topic"}
    /\ last.result = OK
    /\ \E x \in store : /\ x.user # last.user
                        /\ <<x.stream, x.topic_name>> = <<KeyOf(last)[2], KeyOf(last)[3]>>
    /\ \E x \in store : /\ x.user = last.user
                        /\ x.stream = KeyOf(last)[2]
                        /\ x.topic_name # KeyOf(last)[3]

---------------------------------------------------------------------------
(* Vocabulary of the properties of requests in flight at once *)

AllDone == \A p \in DOMAIN conc.calls : conc.calls[p].pc = "done"

\* A call that sets a policy other than INHERIT.
SetsPolicy(c) == c.policy # INHERIT

\* The rows of the key the calls race on.
ConcKeyRows(s) == RowsOf(s, ConcUser, ConcStream, ConcTopic)

\* A store without its timestamps.
Policies(s) ==
    {<<x.user, x.stream, x.topic_name, x.visibility_policy>> : x \in s}

\* The orders the calls can be run in, one after the other.
Orders ==
    {o \in [DOMAIN conc.calls -> DOMAIN conc.calls] :
        \A p, q \in DOMAIN conc.calls : o[p] = o[q] => p = q}

\* A call handled on its own, from start to return.
Handled(s, c, t) ==
    IF c.cmd = "update_muted_topic"
    THEN update_muted_topic(s, ConcUser, c.stream_id, c.stream, c.topic,
                            c.op, t)
    ELSE update_user_topic(s, ConcUser, Val(c.stream_id), c.topic,
                           c.policy, t)

\* The calls handled one after the other, in order o from its i-th on,
\* starting in store s: the store at the end and each call's result.
RECURSIVE SerialRun(_, _, _, _)
SerialRun(o, i, s, results) ==
    IF i > Cardinality(DOMAIN conc.calls)
    THEN [store |-> s, results |-> results]
    ELSE LET out == Handled(s, conc.calls[o[i]], now)
         IN  SerialRun(o, i + 1, out.store,
                       [results EXCEPT ![o[i]] = out.result])

Results == [p \in DOMAIN conc.calls |-> conc.calls[p].result]

\* Some serial order gives every call the result it got and ends in the
\* store reached, timestamps aside.
Serializable ==
    \E o \in Orders :
        LET run == SerialRun(o, 1, conc.start, Results)
        IN  /\ run.results = Results
            /\ Policies(run.store) = Policies(store)

---------------------------------------------------------------------------
(* C11 *)

\* C11: when concurrent commands that each set a policy other than INHERIT
\* on the same key (mute_topic, update_user_topic) have all completed,
\* however they interleaved, the store holds exactly one record for the
\* key, and its policy is one of the requested ones.
C11_OneRecordOfARequestedPolicy ==
    (/\ conc.calls # <<>>
     /\ AllDone
     /\ \A p \in DOMAIN conc.calls : SetsPolicy(conc.calls[p]))
    => /\ Cardinality(ConcKeyRows(store)) = 1
       /\ \A x \in ConcKeyRows(store) :
              \E p \in DOMAIN conc.calls :
                  /\ conc.calls[p].result = OK
                  /\ x.visibility_policy = conc.calls[p].policy

\* Two commands with different policies have raced on a key that had a
\* record, each resolving before either wrote.
C11_Witness ==
    /\ conc.calls # <<>>
    /\ AllDone
    /\ \A p \in DOMAIN conc.calls : SetsPolicy(conc.calls[p])
    /\ \E p, q \in DOMAIN conc.calls :
          /\ conc.calls[p].policy # conc.calls[q].policy
          /\ conc.calls[p].result = OK
          /\ conc.calls[q].result = OK
          /\ conc.calls[p].started < conc.calls[q].started
          /\ \E x \in ConcKeyRows(store) :
                /\ x.visibility_policy = conc.calls[p].policy
                /\ x.last_updated > conc.calls[q].started
    /\ ConcKeyRows(conc.start) # {}

---------------------------------------------------------------------------
(* C17 *)

\* C17: when concurrent mute, unmute and update_user_topic commands of one
\* user on one key have all completed, their results and the final store
\* are those of some serial order of the commands; in particular two
\* concurrent unmute_topic calls on the user's only override in the stream
\* do not both succeed.
C17_EquivalentToSerialOrder ==
    (conc.calls # <<>> /\ AllDone)
    => /\ Serializable
       /\ \A p, q \in DOMAIN conc.calls :
              (/\ p # q
               /\ conc.calls[p].cmd = "update_muted_topic"
               /\ conc.calls[p].op = "remove"
               /\ conc.calls[q].cmd = "update_muted_topic"
               /\ conc.calls[q].op = "remove"
               /\ Cardinality({x \in conc.start : x.user = ConcUser
                                                  /\ x.stream = ConcStream}) = 1
               /\ \A r \in DOMAIN conc.calls : r \in {p, q})
              => ~(conc.calls[p].result = OK /\ conc.calls[q].result = OK)

=============================================================================
